---- MODULE Spec2Model ----
(***************************************************************************)
(* Process lifecycle of the Smart Expense Tracker API (index.js): the      *)
(* MongoDB connection manager with its retry timer, the HTTP surface with  *)
(* its route table, the graceful-shutdown coordinator and the fatal-error  *)
(* handlers.  One action per event-loop callback; a callback runs to its   *)
(* next await (or to its end) in one step.  The model follows the first    *)
(* program of index.js (lines 1-228), the script the process manager       *)
(* starts; the /protected router is routes/protected.js.  What mongoose,   *)
(* the HTTP server and the authentication middleware do is modelled at     *)
(* their call sites.                                                       *)
(***************************************************************************)
EXTENDS Integers, Sequences, FiniteSets, TLC

(* ------------------------------ bounds -------------------------------- *)

\* requests that can be in flight at once
MaxInflight == 1
\* termination signals delivered to the process
MaxSignals == 2

(* ------------------------- program constants -------------------------- *)

\* connectToMongoDB = async (retries = 5)
DefaultRetries == 5

Environments == {"production", "development", "test"}
Budgets == 0..DefaultRetries
Signals == {"SIGTERM", "SIGINT"}
Credentials == {"absent", "invalid", "valid"}

\* mongoose.connection.readyState
DISCONNECTED == 0
CONNECTED == 1
CONNECTING == 2
DISCONNECTING == 3

VARIABLES
    NODE_ENV,        \* process.env.NODE_ENV
    MONGO_URI,       \* TRUE iff process.env.MONGO_URI is set
    initialRetries,  \* the retries argument of the first connectToMongoDB call
    pc,              \* "init" before the module body has run, then "running"
    attempts,        \* invocations of connectToMongoDB so far
    pendingConnects, \* retries values of the invocations awaiting mongoose.connect
    timers,          \* retries values captured by the pending setTimeout callbacks
    connOutcome,     \* "none", "connected", or "failed" (the terminal branch ran)
    readyState,      \* mongoose.connection.readyState
    dbClose,         \* mongoose.connection.close: "none", "deferred", "running", "done"
    closeCalls,      \* times the driver was asked to close the connection
    listening,       \* server.listening
    httpClosed,      \* the server's 'close' event has been emitted
    inflight,        \* slot -> request being handled (NoReq when the slot is free)
    runs,            \* where each gracefulShutdown invocation is, in call order
    exited,          \* process.exit has been called
    exitCode,
    exitBy,          \* the function that called process.exit
    exitLog          \* what that function logged before exiting

envVars == <<NODE_ENV, MONGO_URI, initialRetries>>
procVars == <<pc, attempts, pendingConnects, timers, connOutcome, readyState,
              dbClose, closeCalls, listening, httpClosed, inflight,
              runs, exited, exitCode, exitBy, exitLog>>
vars == <<envVars, procVars>>

\* A slot holds a request from its arrival until the next request takes the
\* slot; once answered (at = "responded") it shows the response that was sent.
\* connAtResponse is a history field: the connection state at the moment the
\* response was sent.
NoReq == [method |-> "", path |-> "", cred |-> "", at |-> "free", idx |-> 0,
          user |-> "none", trace |-> <<>>, status |-> 0, error |-> <<>>,
          stack |-> FALSE, userId |-> "none", connAtResponse |-> ""]

\* The mutable state of the process as one value: the handlers below are
\* functions from this value to the value after the handler has run.
State ==
    [pc |-> pc, attempts |-> attempts, pendingConnects |-> pendingConnects,
     timers |-> timers, connOutcome |-> connOutcome, readyState |-> readyState,
     dbClose |-> dbClose, closeCalls |-> closeCalls, listening |-> listening,
     httpClosed |-> httpClosed, inflight |-> inflight, runs |-> runs, exited |-> exited,
     exitCode |-> exitCode, exitBy |-> exitBy, exitLog |-> exitLog]

Becomes(q) ==
    /\ pc' = q.pc
    /\ attempts' = q.attempts
    /\ pendingConnects' = q.pendingConnects
    /\ timers' = q.timers
    /\ connOutcome' = q.connOutcome
    /\ readyState' = q.readyState
    /\ dbClose' = q.dbClose
    /\ closeCalls' = q.closeCalls
    /\ listening' = q.listening
    /\ httpClosed' = q.httpClosed
    /\ inflight' = q.inflight
    /\ runs' = q.runs
    /\ exited' = q.exited
    /\ exitCode' = q.exitCode
    /\ exitBy' = q.exitBy
    /\ exitLog' = q.exitLog
    /\ UNCHANGED envVars

RemoveAt(s, i) == SubSeq(s, 1, i - 1) \o SubSeq(s, i + 1, Len(s))

(* --------------------------- process.exit ----------------------------- *)

\* process.exit(code): nothing runs afterwards, so a second call cannot happen
processExit(p, code, by, log) ==
    IF p.exited THEN p
    ELSE [p EXCEPT !.exited = TRUE, !.exitCode = code, !.exitBy = by,
                   !.exitLog = log]

(* ---------------------- database connection manager ------------------- *)

\* mutant: the retry test is off by one (retries >= 0), so a spent budget
\* still schedules a retry
connectCatch_RetriesAtZero(p, retries) ==
    IF retries >= 0
    THEN [p EXCEPT !.timers = Append(@, retries - 1)]
    ELSE LET q == [p EXCEPT !.connOutcome = "failed"]
         IN  IF NODE_ENV # "production"
             THEN processExit(q, 1, "connectToMongoDB",
                              "Failed to connect to MongoDB after multiple retries")
             ELSE q

\* mutant: the terminal branch exits in every environment
connectCatch_ExitsInProduction(p, retries) ==
    IF retries > 0
    THEN [p EXCEPT !.timers = Append(@, retries - 1)]
    ELSE processExit([p EXCEPT !.connOutcome = "failed"], 1, "connectToMongoDB",
                     "Failed to connect to MongoDB after multiple retries")

\* mutant: a failed attempt schedules its retry twice
connectCatch_SchedulesTwice(p, retries) ==
    IF retries > 0
    THEN [p EXCEPT !.timers = Append(Append(@, retries - 1), retries - 1)]
    ELSE LET q == [p EXCEPT !.connOutcome = "failed"]
         IN  IF NODE_ENV # "production"
             THEN processExit(q, 1, "connectToMongoDB",
                              "Failed to connect to MongoDB after multiple retries")
             ELSE q

\* mutant: the retry is scheduled with the budget unchanged
connectCatch_NoDecrement(p, retries) ==
    IF retries > 0
    THEN [p EXCEPT !.timers = Append(@, retries)]
    ELSE LET q == [p EXCEPT !.connOutcome = "failed"]
         IN  IF NODE_ENV # "production"
             THEN processExit(q, 1, "connectToMongoDB",
                              "Failed to connect to MongoDB after multiple retries")
             ELSE q

\* the catch block of connectToMongoDB
connectCatch(p, retries) ==
    IF retries > 0
    THEN [p EXCEPT !.timers = Append(@, retries - 1)]
    ELSE LET q == [p EXCEPT !.connOutcome = "failed"]
         IN  IF NODE_ENV # "production"
             THEN processExit(q, 1, "connectToMongoDB",
                              "Failed to connect to MongoDB after multiple retries")
             ELSE q

\* mongoose.connect(mongoUri, options): the connection goes to connecting and
\* the caller awaits the outcome
mongooseConnect(p, retries) ==
    [p EXCEPT !.readyState = CONNECTING,
              !.pendingConnects = Append(@, retries)]

\* mutant: the retry is scheduled when the attempt starts, not when it fails
connectToMongoDB_RetryOnStart(p, retries) ==
    LET q == [p EXCEPT !.attempts = @ + 1]
    IN  IF ~MONGO_URI
        THEN connectCatch(q, retries)
        ELSE mongooseConnect(IF retries > 0
                             THEN [q EXCEPT !.timers = Append(@, retries - 1)]
                             ELSE q, retries)

\* connectToMongoDB(retries), up to its await
connectToMongoDB(p, retries) ==
    LET q == [p EXCEPT !.attempts = @ + 1]
    IN  IF ~MONGO_URI
        THEN connectCatch(q, retries)
        ELSE mongooseConnect(q, retries)

(* ------------------------------- Init --------------------------------- *)

Init ==
    /\ NODE_ENV \in Environments
    /\ MONGO_URI \in BOOLEAN
    /\ initialRetries \in Budgets
    /\ pc = "init"
    /\ attempts = 0
    /\ pendingConnects = <<>>
    /\ timers = <<>>
    /\ connOutcome = "none"
    /\ readyState = DISCONNECTED
    /\ dbClose = "none"
    /\ closeCalls = 0
    /\ listening = FALSE
    /\ httpClosed = FALSE
    /\ inflight = [s \in 1..MaxInflight |-> NoReq]
    /\ runs = <<>>
    /\ exited = FALSE
    /\ exitCode = 0
    /\ exitBy = "none"
    /\ exitLog = ""

\* mutant: the listener is started only when the first attempt was made and
\* is under way
Start_ListensIfConnecting ==
    /\ pc = "init"
    /\ LET q == connectToMongoDB([State EXCEPT !.pc = "running"], initialRetries)
       IN  Becomes(IF q.exited THEN q
                   ELSE [q EXCEPT !.listening = (q.pendingConnects # <<>>)])

\* the module body: connectToMongoDB() and app.listen(PORT, "0.0.0.0")
Start ==
    /\ pc = "init"
    /\ LET q == connectToMongoDB([State EXCEPT !.pc = "running"], initialRetries)
       IN  Becomes(IF q.exited THEN q ELSE [q EXCEPT !.listening = TRUE])

(* -------------------------- mongoose close --------------------------- *)

\* the driver starts closing an open connection
driverClose(p) ==
    [p EXCEPT !.readyState = DISCONNECTING, !.dbClose = "running",
              !.closeCalls = @ + 1]

\* mongoose.connection.close(false): an open connection starts closing; while
\* an attempt is in flight the close waits for it to settle; while a close is
\* already under way the caller waits for that one; on a connection that is
\* disconnected and was never closed the driver is still asked to close
mongooseClose(p) ==
    IF p.readyState = CONNECTED THEN driverClose(p)
    ELSE IF p.readyState = CONNECTING /\ p.dbClose = "none"
         THEN [p EXCEPT !.dbClose = "deferred"]
    ELSE IF p.readyState = DISCONNECTED /\ p.dbClose = "none"
         THEN [p EXCEPT !.dbClose = "running", !.closeCalls = @ + 1]
    ELSE p

\* the deferred close runs once the attempt has settled: an opened connection
\* is closed by the driver, a refused one has nothing to close
closeAfterConnect(p) ==
    IF p.readyState = CONNECTED THEN driverClose(p)
    ELSE [p EXCEPT !.dbClose = "running"]

Running == pc = "running" /\ ~exited

\* an awaited mongoose.connect settles: the try block continues, or the catch
\* block runs; a close that was waiting for the attempt to settle proceeds
ConnectSettle(i, ok) ==
    /\ Running
    /\ i \in 1..Len(pendingConnects)
    /\ LET retries == pendingConnects[i]
           q == [State EXCEPT !.pendingConnects = RemoveAt(@, i)]
           opened == [q EXCEPT !.readyState = CONNECTED,
                               !.connOutcome = "connected"]
           refused == connectCatch([q EXCEPT !.readyState = DISCONNECTED],
                                   retries)
           r == IF ok THEN opened ELSE refused
       IN  Becomes(IF r.dbClose = "deferred" /\ ~r.exited
                   THEN closeAfterConnect(r)
                   ELSE r)

\* the setTimeout callback: () => connectToMongoDB(retries - 1)
RetryTimerFires ==
    /\ Running
    /\ timers # <<>>
    /\ Becomes(connectToMongoDB([State EXCEPT !.timers = Tail(@)],
                                Head(timers)))

(* ------------------------ shutdown coordinator ------------------------ *)

\* mutant: the listener is never told to stop accepting
serverClose_KeepsListening(p) == p

\* server.close(cb): the listener stops accepting at once; cb runs when the
\* server emits 'close', after the last connection has ended
serverClose(p) ==
    [p EXCEPT !.listening = FALSE]

\* mutant: step 2 closes the connection without looking at readyState
shutdownCloseDb_NoGuard(p, i) ==
    [mongooseClose(p) EXCEPT !.runs[i] = "awaitDbClose"]

\* gracefulShutdown from step 2 on: close the database connection if it is
\* not disconnected and await that, else log and process.exit(0)
shutdownCloseDb(p, i) ==
    IF p.readyState # DISCONNECTED
    THEN [mongooseClose(p) EXCEPT !.runs[i] = "awaitDbClose"]
    ELSE processExit([p EXCEPT !.runs[i] = "done"], 0, "gracefulShutdown",
                     "Graceful shutdown completed")

\* gracefulShutdown(signal), up to its first await; the signal's name goes to
\* the log line and nowhere else
gracefulShutdown(p, signal) ==
    LET i == Len(p.runs) + 1
        q == [p EXCEPT !.runs = Append(@, "start")]
    IN  IF q.listening
        THEN [serverClose(q) EXCEPT !.runs[i] = "awaitHttpClose"]
        ELSE shutdownCloseDb(q, i)

\* the catch block of gracefulShutdown
shutdownCatch(p, i) ==
    processExit([p EXCEPT !.runs[i] = "failed"], 1, "gracefulShutdown",
                "Error during server shutdown")

Awaiting(p, at) == {i \in 1..Len(p.runs) : p.runs[i] = at}

Min(S) == CHOOSE x \in S : \A y \in S : x <= y

\* every invocation awaiting the server's 'close' continues, in call order
RECURSIVE resumeAfterHttpClose(_)
resumeAfterHttpClose(p) ==
    IF p.exited \/ Awaiting(p, "awaitHttpClose") = {} THEN p
    ELSE resumeAfterHttpClose(
             shutdownCloseDb(p, Min(Awaiting(p, "awaitHttpClose"))))

\* process.on(sig, () => gracefulShutdown(sig))
Signal(sig) ==
    /\ Running
    /\ Len(runs) < MaxSignals
    /\ Becomes(gracefulShutdown(State, sig))

InFlight(p) ==
    {s \in DOMAIN p.inflight : p.inflight[s].at \notin {"free", "responded"}}

AllFree(p) == InFlight(p) = {}

\* the server emits 'close': it is no longer listening and the last
\* connection has ended
HttpCloseEvent ==
    /\ Running
    /\ ~listening
    /\ ~httpClosed
    /\ AllFree(State)
    /\ Becomes(resumeAfterHttpClose([State EXCEPT !.httpClosed = TRUE]))

\* the close of the database connection settles: the first invocation
\* awaiting it continues to process.exit(0), or its catch block runs
DbCloseSettle(ok) ==
    /\ Running
    /\ dbClose = "running"
    /\ Awaiting(State, "awaitDbClose") # {}
    /\ (~ok => closeCalls > 0)
    /\ LET i == Min(Awaiting(State, "awaitDbClose"))
       IN  Becomes(IF ok
                   THEN processExit([State EXCEPT !.readyState = DISCONNECTED,
                                                  !.dbClose = "done",
                                                  !.runs[i] = "done"],
                                    0, "gracefulShutdown",
                                    "Graceful shutdown completed")
                   ELSE shutdownCatch(State, i))

(* ------------------------ fatal-error handlers ------------------------ *)

\* process.on("uncaughtException", ...): both listeners log and exit
uncaughtExceptionListeners == <<"exit", "exit">>

\* mutant: only the logging listener is registered
unhandledRejectionListeners_LogOnly == <<"log">>

\* process.on("unhandledRejection", ...): the first listener only logs, the
\* second logs and exits
unhandledRejectionListeners == <<"log", "exit">>

\* process.emit(event): the listeners run in registration order
RECURSIVE emit(_, _, _)
emit(p, event, listeners) ==
    IF listeners = <<>> THEN p
    ELSE emit(IF Head(listeners) = "exit"
              THEN processExit(p, 1, event, event)
              ELSE p,
              event, Tail(listeners))

UncaughtException ==
    /\ Running
    /\ Becomes(emit(State, "uncaughtException", uncaughtExceptionListeners))

UnhandledRejection ==
    /\ Running
    /\ Becomes(emit(State, "unhandledRejection", unhandledRejectionListeners))

(* ---------------------------- HTTP surface ---------------------------- *)

\* the connection state a health probe would find
ConnectionState(p) ==
    IF p.connOutcome = "failed" THEN "exhausted"
    ELSE IF p.timers # <<>> THEN "waiting"
    ELSE IF p.readyState = CONNECTING THEN "connecting"
    ELSE IF p.readyState = CONNECTED THEN "connected"
    ELSE IF p.readyState = DISCONNECTING THEN "disconnecting"
    ELSE "disconnected"

isDevelopment == NODE_ENV # "production"

\* mutant: the route is registered without the middleware
protectedStack_NoAuth == <<"protected">>

\* router.get("/protected", auth, handler)
protectedStack == <<"auth", "protected">>

\* the route table in registration order: app.get("/health"), app.get("/"),
\* app.use("/api", protectedRoutes), then the 404 handler
routeStack(method, path) ==
    IF method = "GET" /\ path = "/health" THEN <<"health">>
    ELSE IF method = "GET" /\ path = "/" THEN <<"root">>
    ELSE IF method = "GET" /\ path = "/api/protected" THEN protectedStack
    ELSE <<"notFound">>

respond(req, status) ==
    [req EXCEPT !.at = "responded", !.status = status]

next(req) == [req EXCEPT !.idx = @ + 1]

\* mutant: the probe reports the database and answers 503 unless connected
healthHandler_ChecksDb(p, req) ==
    [respond(req, IF p.readyState = CONNECTED THEN 200 ELSE 503)
        EXCEPT !.connAtResponse = ConnectionState(p)]

\* app.get("/health", ...): res.status(200).json({status: "healthy", ...})
healthHandler(p, req) ==
    [respond(req, 200) EXCEPT !.connAtResponse = ConnectionState(p)]

\* app.get("/", ...): res.status(200).json({message, status, version, ...})
rootHandler(p, req) == respond(req, 200)

\* the authentication middleware: a missing or invalid credential is answered
\* 401 and the chain stops; a valid one attaches the identity and calls next
auth(p, req) ==
    IF req.cred = "absent"
    THEN [respond(req, 401) EXCEPT !.error = <<"missing credential">>]
    ELSE IF req.cred = "invalid"
    THEN [respond(req, 401) EXCEPT !.error = <<"invalid credential">>]
    ELSE next([req EXCEPT !.user = "user1"])

\* the /protected handler: res.json({message, userId: req.user})
protectedHandler(p, req) ==
    [respond(req, 200) EXCEPT !.userId = req.user]

\* mutant: the error details are sent in every environment
errorHandler_AlwaysDetailed(error, req) ==
    [respond(req, IF error.status # 0 THEN error.status ELSE 500)
        EXCEPT !.error = error.message, !.stack = TRUE]

\* the global error handler
errorHandler(error, req) ==
    [respond(req, IF error.status # 0 THEN error.status ELSE 500)
        EXCEPT !.error = IF isDevelopment THEN error.message
                         ELSE <<"Internal Server Error">>,
               !.stack = isDevelopment]

\* mutant: the error is passed on without error.status = 404
notFoundHandler_NoStatus(p, req) ==
    errorHandler([status |-> 0,
                  message |-> <<"Route not found", req.method, req.path>>],
                 req)

\* the 404 handler: next(error) with status 404 reaches the error handler
notFoundHandler(p, req) ==
    errorHandler([status |-> 404,
                  message |-> <<"Route not found", req.method, req.path>>],
                 req)

\* one layer of the matched stack runs on the request
runLayer(p, req) ==
    LET layer == routeStack(req.method, req.path)[req.idx]
        r == [req EXCEPT !.trace = Append(@, layer)]
    IN  CASE layer = "health" -> healthHandler(p, r)
          [] layer = "root" -> rootHandler(p, r)
          [] layer = "auth" -> auth(p, r)
          [] layer = "protected" -> protectedHandler(p, r)
          [] OTHER -> notFoundHandler(p, r)

\* the listener accepts a request; it is in flight until it is answered
Arrive(s, method, path, cred) ==
    /\ Running
    /\ listening
    /\ s \notin InFlight(State)
    /\ (path # "/api/protected" => cred = "absent")
    /\ Becomes([State EXCEPT !.inflight[s] =
                   [NoReq EXCEPT !.method = method, !.path = path,
                                 !.cred = cred, !.at = "routing", !.idx = 1]])

\* the next layer of the request's stack runs
Handle(s) ==
    /\ Running
    /\ s \in InFlight(State)
    /\ Becomes([State EXCEPT !.inflight[s] = runLayer(State, @)])

Requests ==
    {<<"GET", "/health">>, <<"GET", "/">>, <<"GET", "/api/protected">>,
     <<"GET", "/missing">>, <<"POST", "/health">>}

Next ==
    \/ Start
    \/ \E i \in 1..Len(pendingConnects), ok \in BOOLEAN : ConnectSettle(i, ok)
    \/ RetryTimerFires
    \/ \E sig \in Signals : Signal(sig)
    \/ HttpCloseEvent
    \/ \E ok \in BOOLEAN : DbCloseSettle(ok)
    \/ UncaughtException
    \/ UnhandledRejection
    \/ \E s \in 1..MaxInflight, rq \in Requests, cred \in Credentials :
           Arrive(s, rq[1], rq[2], cred)
    \/ \E s \in 1..MaxInflight : Handle(s)

Spec == Init /\ [][Next]_vars

(* =============================== claims =============================== *)

Slots == DOMAIN inflight

(* ---- C1 ---- *)
\* C1: when every attempt fails, connectToMongoDB started with a budget of N
\* makes exactly N+1 attempts before the terminal branch runs and never an
\* (N+2)th: the attempt counter never passes N+1, the terminal branch is
\* reached only with N+1 attempts made and nothing further scheduled, each
\* scheduled retry carries the budget less one per attempt made, and until
\* an attempt succeeds or the budget is spent another attempt is pending.
C1_ExactlyNPlusOneAttempts ==
    /\ attempts <= initialRetries + 1
    /\ connOutcome = "failed" =>
          /\ attempts = initialRetries + 1
          /\ timers = <<>>
          /\ pendingConnects = <<>>
    /\ \A i \in 1..Len(timers) : timers[i] = initialRetries - attempts
    /\ \A i \in 1..Len(pendingConnects) :
          pendingConnects[i] = initialRetries - attempts + 1
    /\ (Running /\ connOutcome = "none") =>
          Len(timers) + Len(pendingConnects) = 1

\* the default budget of 5 is spent: six attempts were refused by the server
C1_Witness ==
    /\ MONGO_URI
    /\ initialRetries = DefaultRetries
    /\ connOutcome = "failed"
    /\ attempts = DefaultRetries + 1

(* ---- C2 ---- *)
\* C2: when MONGO_URI is not set, connectToMongoDB goes to the error outcome
\* at once: no timer is scheduled and connectToMongoDB is not invoked again,
\* whatever the remaining budget.
C2_NoRetryWithoutUri ==
    ~MONGO_URI => (timers = <<>> /\ attempts <= 1)

(* ---- C3 ---- *)
\* C3: after a termination signal that finds a request in flight,
\* gracefulShutdown does not call process.exit until that request has been
\* answered, and then exits with code 0 (unless a drain step failed).
C3_ExitWaitsForInflight ==
    (exited /\ exitBy = "gracefulShutdown") =>
        /\ AllFree(State)
        /\ (exitCode = 0 \/ exitLog = "Error during server shutdown")

(* ---- C4 ---- *)
\* C4: in every shutdown run the HTTP close is awaited first, only then is
\* the database connection closed, and only then does the process exit: the
\* database close never starts before the server has emitted 'close'.
C4_DrainOrder ==
    /\ dbClose # "none" => httpClosed
    /\ \A i \in 1..Len(runs) : runs[i] \in {"awaitDbClose", "done", "failed"}
                                  => httpClosed
    /\ (exited /\ exitBy = "gracefulShutdown" /\ exitCode = 0) =>
          readyState = DISCONNECTED

(* ---- C5 ---- *)
\* C5: gracefulShutdown exits with code 0 exactly when both drain steps
\* succeeded (the server emitted 'close', the connection is closed) and with
\* code 1 when a step failed, which it logs and does not retry.
C5_ExitCodeReflectsDrain ==
    (exited /\ exitBy = "gracefulShutdown") =>
        /\ exitCode = 0 <=> (httpClosed /\ readyState = DISCONNECTED)
        /\ exitCode = 1 <=> exitLog = "Error during server shutdown"
        /\ exitCode \in {0, 1}

\* With at most one signal delivered the drain is ordered, waits for the
\* requests in flight and reports its outcome in the exit code: C3, C4 and
\* C5 are broken by a second gracefulShutdown invocation only.
SingleSignalDrain ==
    Len(runs) <= 1 =>
        (C3_ExitWaitsForInflight /\ C4_DrainOrder /\ C5_ExitCodeReflectsDrain)

(* ---- C6 ---- *)
\* C6: the step that spends the retry budget ends the process with code 1
\* outside production; in production the process keeps running, the
\* listener keeps accepting, and no further attempt is ever scheduled.
C6_ExhaustionByEnvironment ==
    [][/\ (connOutcome # "failed" /\ connOutcome' = "failed") =>
            IF NODE_ENV = "production"
            THEN /\ ~exited'
                 /\ pc' = "running"
                 /\ (listening \/ pc = "init") => listening'
                 /\ timers' = <<>> /\ pendingConnects' = <<>>
            ELSE exited' /\ exitCode' = 1 /\ exitBy' = "connectToMongoDB"
       /\ connOutcome = "failed" =>
            /\ attempts' = attempts
            /\ timers' = <<>> /\ pendingConnects' = <<>>
            /\ connOutcome' = "failed"]_vars

\* production, budget spent, and a health probe was answered afterwards
C6_Witness ==
    /\ NODE_ENV = "production"
    /\ connOutcome = "failed"
    /\ Running /\ listening
    /\ \E s \in Slots : /\ inflight[s].at = "responded"
                        /\ inflight[s].connAtResponse = "exhausted"

(* ---- C7 ---- *)
\* C7: every answer to GET /health has status 200, whatever the state of the
\* database connection when it is sent.
C7_HealthAlways200 ==
    \A s \in Slots :
        (inflight[s].at = "responded" /\ inflight[s].method = "GET"
            /\ inflight[s].path = "/health") => inflight[s].status = 200

\* a health probe answered 200 while an attempt was refused and the manager
\* was waiting to retry
C7_Witness ==
    \E s \in Slots : /\ inflight[s].at = "responded"
                     /\ inflight[s].path = "/health"
                     /\ inflight[s].status = 200
                     /\ inflight[s].connAtResponse = "waiting"

(* ---- C8 ---- *)
\* the shutdown state, read off the process: closed once it has exited,
\* draining once the listener has stopped accepting, running before that
ShutdownState ==
    IF exited THEN "closed"
    ELSE IF pc = "running" /\ ~listening THEN "draining"
    ELSE "running"

Rank(st) == CASE st = "running" -> 0 [] st = "draining" -> 1 [] OTHER -> 2

\* C8: the shutdown state never moves backwards; a signal of either type
\* that finds the process running takes it to draining, and gracefulShutdown
\* takes it to closed only from draining.
C8_ShutdownMonotonic ==
    [][/\ Rank(ShutdownState') >= Rank(ShutdownState)
       /\ (Len(runs') > Len(runs) /\ ShutdownState = "running")
             => ShutdownState' = "draining"
       /\ (ShutdownState' = "closed" /\ exitBy' = "gracefulShutdown")
             => ShutdownState = "draining"]_vars

\* two signals were handled and the process has shut down
C8_Witness ==
    /\ Len(runs) = 2
    /\ exited /\ exitBy = "gracefulShutdown"

C10_AuthBeforeHandler ==
    \A s \in Slots :
        LET r == inflight[s] IN
        (r.method = "GET" /\ r.path = "/api/protected") =>
            /\ r.trace # <<>> => r.trace[1] = "auth"
            /\ r.at = "responded" => r.trace # <<>>
            /\ (\E i \in 1..Len(r.trace) : r.trace[i] = "protected") =>
                  /\ r.trace = <<"auth", "protected">>
                  /\ r.cred = "valid" /\ r.user # "none"
                  /\ r.status = 200 /\ r.userId = r.user
            /\ (r.at = "routing" /\ r.idx > 1) =>
                  (r.trace = <<"auth">> /\ r.cred = "valid" /\ r.user # "none")
            /\ (r.at = "responded" /\ r.cred # "valid") =>
                  (r.status = 401 /\ r.trace = <<"auth">>)

\* a request with a valid credential was answered by the handler, after auth
C10_Witness ==
    \E s \in Slots : /\ inflight[s].at = "responded"
                     /\ inflight[s].trace = <<"auth", "protected">>
                     /\ inflight[s].status = 200
                     /\ inflight[s].userId = "user1"

(* ---- C11 ---- *)
Unmatched(r) == routeStack(r.method, r.path) = <<"notFound">>

RouteNotFound(r) == <<"Route not found", r.method, r.path>>

SampleErrors ==
    {[status |-> 0, message |-> <<"boom">>],
     [status |-> 404, message |-> <<"Route not found", "GET", "/missing">>],
     [status |-> 503, message |-> <<"database unavailable">>]}

\* C12: in production no response of the global error handler carries a
\* stack or the original error message; the stack is sent exactly when the
\* environment is not production.
C12_NoLeakInProduction ==
    /\ \A s \in Slots :
          (inflight[s].at = "responded" /\ Unmatched(inflight[s])) =>
              /\ inflight[s].stack <=> NODE_ENV # "production"
              /\ NODE_ENV = "production" =>
                    inflight[s].error # RouteNotFound(inflight[s])
    /\ \A err \in SampleErrors :
          LET r == errorHandler(err, NoReq)
          IN  /\ r.stack <=> NODE_ENV # "production"
              /\ NODE_ENV = "production" =>
                    (r.error = <<"Internal Server Error">> /\ r.error # err.message)

\* an unmatched request was answered in production without stack or message
C12_Witness ==
    \E s \in Slots : /\ NODE_ENV = "production"
                     /\ inflight[s].at = "responded"
                     /\ inflight[s].path = "/missing"
                     /\ inflight[s].status = 404
                     /\ ~inflight[s].stack
                     /\ inflight[s].error = <<"Internal Server Error">>

(* ---- C13 ---- *)
\* C13: closing the database connection is idempotent: over any sequence of
\* shutdown invocations the driver is asked to close at most once, and only
\* a connection that was opened; a shutdown that finds readyState 0 makes no
\* close call and raises no error.
C13_CloseAtMostOnce ==
    /\ closeCalls <= 1
    /\ closeCalls = 1 => connOutcome = "connected"
    /\ (exited /\ exitBy = "gracefulShutdown" /\ closeCalls = 0) => exitCode = 0

\* two shutdown invocations, one close of the opened connection, exit 0
C13_Witness ==
    /\ Len(runs) = 2
    /\ closeCalls = 1
    /\ exited /\ exitBy = "gracefulShutdown" /\ exitCode = 0
    /\ runs[2] = "awaitDbClose"

(* ---- C14 ---- *)
\* C14: at most one connection attempt is in flight at any time, at most one
\* retry is scheduled, never both at once, and none once an attempt has
\* succeeded; every step starts at most one attempt, and a retry appears only
\* in a step in which an attempt failed.
C14_OneAttemptAtATime ==
    [][/\ Len(pendingConnects') + Len(timers') <= 1
       /\ attempts' <= attempts + 1
       /\ Len(timers') > Len(timers) =>
             \/ Len(pendingConnects') < Len(pendingConnects)
             \/ (~MONGO_URI /\ attempts' = attempts + 1)
       /\ Len(pendingConnects') > Len(pendingConnects) =>
             (attempts' = attempts + 1 /\ (pc = "init" \/ timers # <<>>))]_vars

\* the third attempt is in flight, alone
C14_Witness ==
    /\ attempts = 3
    /\ Len(pendingConnects) = 1
    /\ timers = <<>>

(* ---- C15 ---- *)
\* C15: HTTP startup does not wait for the database: once the module body
\* has run the listener is up whatever became of the first attempt, and
\* until a shutdown starts it accepts a request and handles the one in
\* flight in every connection state.
C15_HttpIndependentOfDb ==
    (Running /\ runs = <<>>) =>
        /\ listening
        /\ \A s \in Slots :
              IF s \in InFlight(State)
              THEN ENABLED Handle(s)
              ELSE ENABLED Arrive(s, "GET", "/api/protected", "valid")

\* a request was answered while the first attempt was still in flight
C15_Witness ==
    /\ attempts = 1
    /\ pendingConnects # <<>>
    /\ \E s \in Slots : /\ inflight[s].at = "responded"
                        /\ inflight[s].connAtResponse = "connecting"

(* ---- C16 ---- *)
\* the connection manager's state, read off the process: connecting while an
\* attempt is awaited, connected while the connection is open (or closing),
\* error after a failed attempt until the next one starts, else disconnected
ManagerState ==
    IF pendingConnects # <<>> THEN "connecting"
    ELSE IF readyState \in {CONNECTED, DISCONNECTING} THEN "connected"
    ELSE IF timers # <<>> \/ connOutcome = "failed" THEN "error"
    ELSE "disconnected"

ClaimedTransitions ==
    {<<"disconnected", "connecting">>, <<"connecting", "connected">>,
     <<"connecting", "error">>, <<"error", "connecting">>,
     <<"connected", "disconnected">>}

C17_SecondSignalKeepsDrain ==
    (Len(runs) >= 2 /\ exited /\ exitBy = "gracefulShutdown") =>
        /\ InFlight(State) = {}
        /\ httpClosed
        /\ runs[1] \in {"done", "failed"}

(* ---- C18 ---- *)
\* C18: once a shutdown has started, no new connection attempt is started (a
\* retry timer scheduled earlier does not fire an attempt) and the
\* connection manager does not call process.exit during the drain.
C18_NoAttemptDuringShutdown ==
    [][runs # <<>> =>
          /\ attempts' = attempts
          /\ (exited' /\ ~exited) => exitBy' # "connectToMongoDB"]_vars

(* ---- C19 ---- *)
\* C19: the remaining-retries value stays between 0 and the initial budget
\* and goes down by exactly one per attempt; a successful attempt leaves
\* nothing scheduled; connectToMongoDB calls process.exit(1) only with the
\* budget at 0 and NODE_ENV other than production.
C19_BudgetInvariant ==
    /\ \A i \in 1..Len(timers) :
          /\ timers[i] \in 0..initialRetries
          /\ timers[i] = initialRetries - attempts
    /\ \A i \in 1..Len(pendingConnects) :
          /\ pendingConnects[i] \in 0..initialRetries
          /\ pendingConnects[i] = initialRetries - attempts + 1
    /\ connOutcome = "connected" => (timers = <<>> /\ pendingConnects = <<>>)
    /\ exitBy = "connectToMongoDB" =>
          /\ exitCode = 1
          /\ NODE_ENV # "production"
          /\ attempts = initialRetries + 1
          /\ connOutcome = "failed"

\* the budget ran from 2 down to 0 over three attempts and the last one
\* connected, leaving no timer
C19_Witness ==
    /\ initialRetries = 2
    /\ attempts = 3
    /\ connOutcome = "connected"
    /\ timers = <<>>

====
